---- MODULE Spec2Model ----
(***************************************************************************)
(* Model of the PDAL filter stages of leeward (BodyFrameFilter,            *)
(* LeewardFilter and the early plugin stage) and of the engine they call   *)
(* through leeward.h.  Times are integer ticks of 2^-10 s, so that the      *)
(* narrowing of GpsTime to a C float is exact integer rounding; angles are *)
(* integer multiples of pi/PiUnits.                                        *)
(***************************************************************************)
EXTENDS Integers, Sequences, FiniteSets, TLC

VARIABLES
    kind,        \* which stage runs: "body", "leeward" or "plugin"
    m_sbet,      \* BodyFrameFilter::m_sbet / LeewardFilter::m_sbet
    m_config,    \* m_config
    m_offset,    \* BodyFrameFilter::m_offset (float)
    view,        \* PointView: sequence of points, each with its fields
    pc,          \* position of the running filter()
    id,          \* PointId of the loop (0-based as in the code)
    leeward,     \* local `leeward`: 0 is the null handle, n > 0 a handle
    engines,     \* engine heap: handle -> [st, traj, calib]
    lidar,       \* local struct LeewardLidar of the iteration
    normal,      \* local struct LeewardNormal of the iteration
    result,      \* local result handle: [st, val]
    queries,     \* log of engine queries: <<[id, engine, time, ok]>>
    frees,       \* log of released engine handles
    resAllocs,   \* results handed out by the engine
    resFrees,    \* results given back to the engine
    faults,      \* memory faults committed so far
    error,       \* message of the pdal_error thrown, "" if none
    skipped,     \* points for which a warning was printed
    wpc, wid, wres  \* parallel callers (one entry per worker)

vars == <<kind, m_sbet, m_config, m_offset, view, pc, id, leeward, engines,
          lidar, normal, result, queries, frees, resAllocs, resFrees, faults,
          error, skipped, wpc, wid, wres>>

----------------------------------------------------------------------------
(* Bounds *)
MaxPoints == 2
NumWorkers == 2

----------------------------------------------------------------------------
(* C float: 24 significant bits, round to nearest, ties to even *)
FloatMantissaBits == 24
FloatLimit == 2 ^ FloatMantissaBits

Abs(n) == IF n < 0 THEN -n ELSE n

RECURSIVE Quantum(_, _)
Quantum(a, q) == IF a < FloatLimit * q THEN q ELSE Quantum(a, 2 * q)

ToFloat(n) ==
    LET a    == Abs(n)
        q    == Quantum(a, 1)
        r    == a % q
        base == a - r
        up   == IF 2 * r > q THEN TRUE
                ELSE IF 2 * r < q THEN FALSE
                ELSE (base \div q) % 2 = 1
        m    == IF up THEN base + q ELSE base
    IN  IF n < 0 THEN -m ELSE m

FloatAdd(a, b) == ToFloat(a + b)

----------------------------------------------------------------------------
(* The files a run can name *)
T0 == FloatLimit - 8
T1 == FloatLimit - 4
T2 == FloatLimit

Rec(t, x, y, z, yaw, sig) ==
    [time |-> t, x |-> x, y |-> y, z |-> z, roll |-> 0, pitch |-> 0,
     yaw |-> yaw, sigma |-> sig]

SbetFiles ==
    [p \in {"flight.sbet", "unsorted.sbet"} |->
        IF p = "flight.sbet"
        THEN << Rec(T0, 0, 0, 10, 170, 1), Rec(T1, 4, 0, 10, -170, 1),
                Rec(T2, 8, 0, 10, -170, 2) >>
        ELSE << Rec(T1, 4, 0, 10, 0, 1), Rec(T0, 0, 0, 10, 0, 1) >>]

ConfigFiles ==
    [p \in {"sensor.toml", "negative.toml"} |->
        IF p = "sensor.toml"
        THEN [lever |-> <<0, 0, 1>>, boresightYaw |-> 0, rangeNoise |-> 2,
              angleNoise |-> 1, attitudeScale |-> 1]
        ELSE [lever |-> <<0, 0, 1>>, boresightYaw |-> 0, rangeNoise |-> -2,
              angleNoise |-> 1, attitudeScale |-> 1]]

SbetPaths == {"", "flight.sbet", "unsorted.sbet", "missing.sbet"}
ConfigPaths == {"", "sensor.toml", "negative.toml"}

----------------------------------------------------------------------------
(* The engine behind leeward.h: trajectory store, calibration model,       *)
(* frame transform, uncertainty propagator and facade.                     *)

StrictlyOrdered(traj) ==
    \A i \in 1..(Len(traj) - 1) : traj[i].time < traj[i + 1].time

ValidConfig(c) ==
    c.rangeNoise >= 0 /\ c.angleNoise >= 0 /\ c.attitudeScale >= 0

\* create(trajectory_path, config_path): does construction succeed
CanCreate(sbet, config) ==
    /\ sbet \in DOMAIN SbetFiles
    /\ Len(SbetFiles[sbet]) > 0
    /\ StrictlyOrdered(SbetFiles[sbet])
    /\ config \in DOMAIN ConfigFiles
    /\ ValidConfig(ConfigFiles[config])

Lerp(a, b, num, den) == a + ((b - a) * num) \div den

WrapAngle(x) == ((x + 180) % 360) - 180

ShortestArc(a, b, num, den) ==
    WrapAngle(a + (WrapAngle(b - a) * num) \div den)

\* interpolate(t) -> PlatformState | Fail(OutOfRange)
Interpolate(traj, t) ==
    IF t < traj[1].time \/ t > traj[Len(traj)].time
    THEN [ok |-> FALSE]
    ELSE IF Len(traj) = 1 THEN [ok |-> TRUE, state |-> traj[1]]
    ELSE LET i   == CHOOSE k \in 1..(Len(traj) - 1) :
                        /\ traj[k].time <= t
                        /\ t <= traj[k + 1].time
                        /\ \A j \in 1..(k - 1) : ~(t <= traj[j + 1].time)
             a   == traj[i]
             b   == traj[i + 1]
             num == t - a.time
             den == b.time - a.time
         IN  [ok |-> TRUE,
              state |-> [time  |-> t,
                         x     |-> Lerp(a.x, b.x, num, den),
                         y     |-> Lerp(a.y, b.y, num, den),
                         z     |-> Lerp(a.z, b.z, num, den),
                         roll  |-> ShortestArc(a.roll, b.roll, num, den),
                         pitch |-> ShortestArc(a.pitch, b.pitch, num, den),
                         yaw   |-> ShortestArc(a.yaw, b.yaw, num, den),
                         sigma |-> Lerp(a.sigma, b.sigma, num, den)]]

\* rotation about the vertical axis, to the nearest quarter turn
QuarterTurns(yaw) == (((yaw + 45) % 360) \div 90) % 4

RECURSIVE RotateBack(_, _)
RotateBack(v, q) ==
    IF q = 0 THEN v ELSE RotateBack(<<v[2], -v[1], v[3]>>, q - 1)

\* to_body_frame(platform_state, lidar_point) -> BodyFrameResult
ToBodyFrame(ps, calib, pt) ==
    LET d == <<pt.x - ps.x, pt.y - ps.y, pt.z - ps.z>>
        r == RotateBack(d, QuarterTurns(ps.yaw + calib.boresightYaw))
    IN  [x     |-> r[1] - calib.lever[1],
         y     |-> r[2] - calib.lever[2],
         z     |-> r[3] - calib.lever[3],
         roll  |-> ps.roll,
         pitch |-> ps.pitch,
         yaw   |-> ps.yaw]

\* query_body_frame(point) -> BodyFrameResult | Fail(OutOfRange)
QueryBodyFrame(e, pt) ==
    LET ip == Interpolate(e.traj, pt.time)
    IN  IF ip.ok
        THEN [ok |-> TRUE, val |-> ToBodyFrame(ip.state, e.calib, pt)]
        ELSE [ok |-> FALSE]

Dot(u, v) == u[1] * v[1] + u[2] * v[2] + u[3] * v[3]

\* pi, in the unit the engine's angles are counted in
PiUnits == 12

\* incidence_angle(ray_direction, surface_normal): 0 when the ray is
\* anti-parallel to the normal, pi/2 at grazing incidence, in [0, pi]
IncidenceAngle(ray, n) ==
    LET d     == Dot(ray, n)
        c2    == d * d
        m     == Dot(ray, ray) * Dot(n, n)
        acute == IF c2 = m THEN 0
                 ELSE IF 4 * c2 >= 3 * m THEN 2
                 ELSE IF 2 * c2 >= m THEN 3
                 ELSE IF 4 * c2 >= m THEN 4
                 ELSE IF c2 > 0 THEN 5
                 ELSE 6
    IN  IF d <= 0 THEN acute ELSE PiUnits - acute

RECURSIVE SqrtFrom(_, _)
SqrtFrom(n, r) == IF (r + 1) * (r + 1) > n THEN r ELSE SqrtFrom(n, r + 1)

ISqrt(n) == SqrtFrom(n, 0)

\* first-order propagation: variance = sum of (partial * sigma)^2
Propagate(ps, calib, pt, n) ==
    LET ray   == <<pt.x - ps.x, pt.y - ps.y, pt.z - ps.z>>
        a     == IncidenceAngle(ray, n)
        dev   == IF 2 * a <= PiUnits THEN a ELSE PiUnits - a
        att   == calib.attitudeScale * calib.angleNoise
        along == calib.rangeNoise * dev
        varX  == ps.sigma * ps.sigma + att * att * ray[3] * ray[3]
                 + along * along
        varY  == ps.sigma * ps.sigma + att * att * ray[3] * ray[3]
                 + along * along
        varZ  == ps.sigma * ps.sigma + calib.rangeNoise * calib.rangeNoise
                 + att * att * (ray[1] * ray[1] + ray[2] * ray[2])
    IN  [x               |-> ISqrt(varX),
         y               |-> ISqrt(varY),
         horizontal      |-> ISqrt(varX + varY),
         vertical        |-> ISqrt(varZ),
         total           |-> ISqrt(varX + varY + varZ),
         incidence_angle |-> a]

\* query_uncertainty(point, normal) -> UncertaintyResult | Fail
QueryUncertainty(e, pt, n) ==
    LET ip == Interpolate(e.traj, pt.time)
    IN  IF ~ip.ok THEN [ok |-> FALSE]
        ELSE LET ray == <<pt.x - ip.state.x, pt.y - ip.state.y,
                          pt.z - ip.state.z>>
             IN  IF Dot(n, n) = 0 \/ Dot(ray, n) = 0
                 THEN [ok |-> FALSE]
                 ELSE [ok |-> TRUE,
                       val |-> Propagate(ip.state, e.calib, pt, n)]

----------------------------------------------------------------------------
(* leeward.h handles: what the stages do with engine and result pointers   *)

NoResult == [st |-> "none"]

\* leeward_new: a fresh handle, or 0 (null) when construction fails
NewHandle(sbet, config) ==
    IF CanCreate(sbet, config) THEN Len(engines) + 1 ELSE 0

NewEngine(sbet, config) ==
    [st |-> "live", traj |-> SbetFiles[sbet], calib |-> ConfigFiles[config]]

\* fault of passing handle h to a query
EngineUseFault(h) ==
    IF h = 0 \/ h > Len(engines) THEN {"query_on_null_engine"}
    ELSE IF engines[h].st # "live" THEN {"query_on_freed_engine"}
    ELSE {}

\* fault of passing handle h to leeward_free / leeward_delete
EngineFreeFault(h) ==
    IF h = 0 \/ h > Len(engines) THEN {"free_of_null_engine"}
    ELSE IF engines[h].st # "live" THEN {"double_free_of_engine"}
    ELSE {}

FreeEngine(h) ==
    IF h = 0 \/ h > Len(engines) THEN engines
    ELSE [engines EXCEPT ![h].st = "freed"]

\* fault of reading a field through result pointer r
DerefFault(r) ==
    IF r.st = "live" THEN {}
    ELSE IF r.st = "freed" THEN {"result_use_after_free"}
    ELSE {"null_result_deref"}

\* fault of passing r to leeward_*_free
ResultFreeFault(r) ==
    IF r.st = "live" THEN {}
    ELSE IF r.st = "freed" THEN {"double_free_of_result"}
    ELSE {"free_of_null_result"}

\* a result pointer as the engine returns it
AsHandle(q) ==
    IF q.ok THEN [st |-> "live", val |-> q.val] ELSE [st |-> "null"]

----------------------------------------------------------------------------
(* PointView *)

BodyDims == {"BodyFrameX", "BodyFrameY", "BodyFrameZ", "Roll", "Pitch", "Yaw"}

LeewardDims == {"XUncertainty", "YUncertainty", "HorizontalUncertainty",
                "VerticalUncertainty", "Uncertainty", "IncidenceAngle"}

NoFields == [d \in {} |-> 0]

Point(x, y, z, t, sa, nx, ny, nz) ==
    [X |-> x, Y |-> y, Z |-> z, GpsTime |-> t, ScanAngleRank |-> sa,
     NormalX |-> nx, NormalY |-> ny, NormalZ |-> nz, out |-> NoFields]

PointPool ==
    { Point(4, 0, 0, T1, 0, 0, 0, 1),        \* at a record, flat nadir hit
      Point(5, 0, 0, T0 + 2, 15, 1, 0, 1),   \* between records, tilted
      Point(0, 0, 0, T0 - 2, 0, 0, 0, 1),    \* before the first record
      Point(8, 0, 0, T2 + 1, -15, 0, 0, 1),  \* just after the last record
      Point(8, 1, 0, T2 + 3, 0, 0, 0, 1),    \* after the last record
      Point(4, 0, 0, T1, 0, 0, 0, 0) }       \* no surface normal

RECURSIVE SeqsUpTo(_, _)
SeqsUpTo(S, n) ==
    IF n = 0 THEN {<<>>}
    ELSE LET shorter == SeqsUpTo(S, n - 1)
         IN  shorter \cup {Append(s, e) : s \in shorter, e \in S}

Views == SeqsUpTo(PointPool, MaxPoints)

\* PointView::getFieldAs<double>
GetFieldAsDouble(v, dim, i) == v[i + 1][dim]

\* PointView::getFieldAs<float>
GetFieldAsFloat(v, dim, i) == ToFloat(v[i + 1][dim])

\* PointView::setField on a dimension registered as Dimension::Type::Float
SetField(v, dim, i, val) ==
    [v EXCEPT ![i + 1].out = (dim :> ToFloat(val)) @@ @]

\* what an uninitialised struct member or a dangling read may hold
Garbage == {0, -1}

----------------------------------------------------------------------------
(* BodyFrameFilter *)

\* addArgs: offset defaults to float(0.0)
DefaultOffset == ToFloat(0)

OffsetArgs == {<<>>, <<2>>, <<-3>>}

Body_AddArgs(arg) == IF arg = <<>> THEN DefaultOffset ELSE ToFloat(arg[1])

\* variant: the struct is reused across iterations and keeps its old time
Body_Lidar_KeepsTime(v, i, off, junk) ==
    [x          |-> GetFieldAsDouble(v, "X", i),
     y          |-> GetFieldAsDouble(v, "Y", i),
     z          |-> GetFieldAsDouble(v, "Z", i),
     scan_angle |-> junk,
     time       |-> IF i = 0
                    THEN FloatAdd(GetFieldAsFloat(v, "GpsTime", i), off)
                    ELSE lidar.time]

\* lines 49-53: the struct handed to the engine; scan_angle is never set
Body_Lidar(v, i, off, junk) ==
    [x          |-> GetFieldAsDouble(v, "X", i),
     y          |-> GetFieldAsDouble(v, "Y", i),
     z          |-> GetFieldAsDouble(v, "Z", i),
     scan_angle |-> junk,
     time       |-> FloatAdd(GetFieldAsFloat(v, "GpsTime", i), off)]

\* variant: the result is used without the null check
Body_HasResult_Always(r) == TRUE

\* line 55: if (body_frame)
Body_HasResult(r) == r.st # "null"

\* lines 57-62
Body_SetFields(v, i, bf) ==
    SetField(SetField(SetField(SetField(SetField(SetField(v,
        "BodyFrameX", i, bf.x),
        "BodyFrameY", i, bf.y),
        "BodyFrameZ", i, bf.z),
        "Roll", i, bf.roll),
        "Pitch", i, bf.pitch),
        "Yaw", i, bf.yaw)

GarbageBodyFrame(g) ==
    [x |-> g, y |-> g, z |-> g, roll |-> g, pitch |-> g, yaw |-> g]

Body_CheckSbet ==
    /\ kind = "body" /\ pc = "check_sbet"
    /\ IF m_sbet = ""
       THEN pc' = "thrown" /\ error' = "No SBET path provided, exiting..."
       ELSE pc' = "check_config" /\ error' = error
    /\ UNCHANGED <<kind, m_sbet, m_config, m_offset, view, id, leeward,
                   engines, lidar, normal, result, queries, frees, resAllocs,
                   resFrees, faults, skipped, wpc, wid, wres>>

Body_CheckConfig ==
    /\ kind = "body" /\ pc = "check_config"
    /\ IF m_config = ""
       THEN pc' = "thrown" /\ error' = "No config path provided, exiting..."
       ELSE pc' = "new" /\ error' = error
    /\ UNCHANGED <<kind, m_sbet, m_config, m_offset, view, id, leeward,
                   engines, lidar, normal, result, queries, frees, resAllocs,
                   resFrees, faults, skipped, wpc, wid, wres>>

\* variant: the handle is used without the null check
Body_New_NoNullCheck ==
    /\ kind = "body" /\ pc = "new"
    /\ leeward' = NewHandle(m_sbet, m_config)
    /\ engines' = IF leeward' = 0 THEN engines
                  ELSE Append(engines, NewEngine(m_sbet, m_config))
    /\ pc' = "loop"
    /\ id' = 0
    /\ UNCHANGED <<kind, m_sbet, m_config, m_offset, view, lidar, normal,
                   result, queries, frees, resAllocs, resFrees, faults,
                   error, skipped, wpc, wid, wres>>

\* lines 42-46
Body_New ==
    /\ kind = "body" /\ pc = "new"
    /\ leeward' = NewHandle(m_sbet, m_config)
    /\ IF leeward' = 0
       THEN /\ pc' = "thrown"
            /\ error' = "Error when creating leeward, exiting..."
            /\ engines' = engines
       ELSE /\ pc' = "loop"
            /\ error' = error
            /\ engines' = Append(engines, NewEngine(m_sbet, m_config))
    /\ id' = 0
    /\ UNCHANGED <<kind, m_sbet, m_config, m_offset, view, lidar, normal,
                   result, queries, frees, resAllocs, resFrees, faults,
                   skipped, wpc, wid, wres>>

\* line 47: id < view.size()
Body_LoopTest ==
    /\ kind = "body" /\ pc = "loop"
    /\ pc' = IF id < Len(view) THEN "query" ELSE "free_engine"
    /\ UNCHANGED <<kind, m_sbet, m_config, m_offset, view, id, leeward,
                   engines, lidar, normal, result, queries, frees, resAllocs,
                   resFrees, faults, error, skipped, wpc, wid, wres>>

\* lines 49-54
Body_Query ==
    /\ kind = "body" /\ pc = "query"
    /\ \E junk \in Garbage :
          lidar' = Body_Lidar(view, id, m_offset, junk)
    /\ faults' = faults \cup EngineUseFault(leeward)
    /\ IF EngineUseFault(leeward) = {}
       THEN result' = AsHandle(QueryBodyFrame(engines[leeward], lidar'))
       ELSE result' = [st |-> "null"]
    /\ resAllocs' = resAllocs + (IF result'.st = "live" THEN 1 ELSE 0)
    /\ queries' = Append(queries, [id |-> id, engine |-> leeward,
                                   time |-> lidar'.time,
                                   ok |-> result'.st = "live"])
    /\ pc' = "result"
    /\ UNCHANGED <<kind, m_sbet, m_config, m_offset, view, id, leeward,
                   engines, normal, frees, resFrees, error, skipped, wpc,
                   wid, wres>>

\* lines 55-62 and 65-68
Body_Result ==
    /\ kind = "body" /\ pc = "result"
    /\ IF Body_HasResult(result)
       THEN /\ faults' = faults \cup DerefFault(result)
            /\ IF result.st = "live"
               THEN view' = Body_SetFields(view, id, result.val)
               ELSE \E g \in Garbage :
                       view' = Body_SetFields(view, id, GarbageBodyFrame(g))
            /\ pc' = "free_result"
            /\ UNCHANGED <<skipped, id, result>>
       ELSE /\ skipped' = skipped \cup {id}
            /\ id' = id + 1
            /\ result' = NoResult
            /\ pc' = "loop"
            /\ UNCHANGED <<view, faults>>
    /\ UNCHANGED <<kind, m_sbet, m_config, m_offset, leeward, engines, lidar,
                   normal, queries, frees, resAllocs, resFrees, error, wpc,
                   wid, wres>>

\* variant: leeward_free(leeward) is called where the result should be freed
Body_FreeResult_FreesEngine ==
    /\ kind = "body" /\ pc = "free_result"
    /\ faults' = faults \cup EngineFreeFault(leeward)
    /\ engines' = FreeEngine(leeward)
    /\ frees' = Append(frees, leeward)
    /\ result' = NoResult
    /\ id' = id + 1
    /\ pc' = "loop"
    /\ UNCHANGED <<kind, m_sbet, m_config, m_offset, view, leeward, lidar,
                   normal, queries, resAllocs, resFrees, error, skipped, wpc,
                   wid, wres>>

\* line 63, then ++id
Body_FreeResult ==
    /\ kind = "body" /\ pc = "free_result"
    /\ faults' = faults \cup ResultFreeFault(result)
    /\ resFrees' = resFrees + (IF result.st = "live" THEN 1 ELSE 0)
    /\ result' = NoResult
    /\ id' = id + 1
    /\ pc' = "loop"
    /\ UNCHANGED <<kind, m_sbet, m_config, m_offset, view, leeward, engines,
                   lidar, normal, queries, frees, resAllocs, error, skipped,
                   wpc, wid, wres>>

\* line 70
Body_FreeEngine ==
    /\ kind = "body" /\ pc = "free_engine"
    /\ faults' = faults \cup EngineFreeFault(leeward)
    /\ engines' = FreeEngine(leeward)
    /\ frees' = Append(frees, leeward)
    /\ pc' = "done"
    /\ UNCHANGED <<kind, m_sbet, m_config, m_offset, view, id, leeward, lidar,
                   normal, result, queries, resAllocs, resFrees, error,
                   skipped, wpc, wid, wres>>

----------------------------------------------------------------------------
(* LeewardFilter (uncertainty with normal) *)

\* lines 48-53
Leeward_Lidar(v, i) ==
    [x          |-> GetFieldAsDouble(v, "X", i),
     y          |-> GetFieldAsDouble(v, "Y", i),
     z          |-> GetFieldAsDouble(v, "Z", i),
     scan_angle |-> GetFieldAsFloat(v, "ScanAngleRank", i),
     time       |-> GetFieldAsFloat(v, "GpsTime", i)]

\* lines 54-57
Leeward_Normal(v, i) ==
    <<GetFieldAsFloat(v, "NormalX", i), GetFieldAsFloat(v, "NormalY", i),
      GetFieldAsFloat(v, "NormalZ", i)>>

\* variant: the result is used without the null check
Leeward_IsNull_Never(r) == FALSE

\* line 59: if (!uncertainty)
Leeward_IsNull(r) == r.st = "null"

\* variant: the division by M_PI is left out
RadToDeg_NoPi(a) == a * 180

\* line 68: incidence_angle * 180 / M_PI
RadToDeg(a) == (a * 180) \div PiUnits

\* lines 63-68
Leeward_SetFields(v, i, u) ==
    SetField(SetField(SetField(SetField(SetField(SetField(v,
        "XUncertainty", i, u.x),
        "YUncertainty", i, u.y),
        "HorizontalUncertainty", i, u.horizontal),
        "VerticalUncertainty", i, u.vertical),
        "Uncertainty", i, u.total),
        "IncidenceAngle", i, RadToDeg(u.incidence_angle))

GarbageUncertainty(g) ==
    [x |-> g, y |-> g, horizontal |-> g, vertical |-> g, total |-> g,
     incidence_angle |-> g]

Leeward_CheckSbet ==
    /\ kind = "leeward" /\ pc = "check_sbet"
    /\ IF m_sbet = ""
       THEN pc' = "thrown" /\ error' = "No SBET path provided, exiting..."
       ELSE pc' = "check_config" /\ error' = error
    /\ UNCHANGED <<kind, m_sbet, m_config, m_offset, view, id, leeward,
                   engines, lidar, normal, result, queries, frees, resAllocs,
                   resFrees, faults, skipped, wpc, wid, wres>>

Leeward_CheckConfig ==
    /\ kind = "leeward" /\ pc = "check_config"
    /\ IF m_config = ""
       THEN pc' = "thrown" /\ error' = "No config path provided, exiting..."
       ELSE pc' = "new" /\ error' = error
    /\ UNCHANGED <<kind, m_sbet, m_config, m_offset, view, id, leeward,
                   engines, lidar, normal, result, queries, frees, resAllocs,
                   resFrees, faults, skipped, wpc, wid, wres>>

\* lines 41-45
Leeward_New ==
    /\ kind = "leeward" /\ pc = "new"
    /\ leeward' = NewHandle(m_sbet, m_config)
    /\ IF leeward' = 0
       THEN /\ pc' = "thrown"
            /\ error' = "Error when creating leeward, exiting..."
            /\ engines' = engines
       ELSE /\ pc' = "loop"
            /\ error' = error
            /\ engines' = Append(engines, NewEngine(m_sbet, m_config))
    /\ id' = 0
    /\ UNCHANGED <<kind, m_sbet, m_config, m_offset, view, lidar, normal,
                   result, queries, frees, resAllocs, resFrees, faults,
                   skipped, wpc, wid, wres>>

\* line 46: id < view.size()
Leeward_LoopTest ==
    /\ kind = "leeward" /\ pc = "loop"
    /\ pc' = IF id < Len(view) THEN "query" ELSE "free_engine"
    /\ UNCHANGED <<kind, m_sbet, m_config, m_offset, view, id, leeward,
                   engines, lidar, normal, result, queries, frees, resAllocs,
                   resFrees, faults, error, skipped, wpc, wid, wres>>

\* lines 48-58
Leeward_Query ==
    /\ kind = "leeward" /\ pc = "query"
    /\ lidar' = Leeward_Lidar(view, id)
    /\ normal' = Leeward_Normal(view, id)
    /\ faults' = faults \cup EngineUseFault(leeward)
    /\ IF EngineUseFault(leeward) = {}
       THEN result' = AsHandle(QueryUncertainty(engines[leeward], lidar',
                                                normal'))
       ELSE result' = [st |-> "null"]
    /\ resAllocs' = resAllocs + (IF result'.st = "live" THEN 1 ELSE 0)
    /\ queries' = Append(queries, [id |-> id, engine |-> leeward,
                                   time |-> lidar'.time,
                                   ok |-> result'.st = "live"])
    /\ pc' = "result"
    /\ UNCHANGED <<kind, m_sbet, m_config, m_offset, view, id, leeward,
                   engines, frees, resFrees, error, skipped, wpc, wid, wres>>

\* lines 59-68
Leeward_Result ==
    /\ kind = "leeward" /\ pc = "result"
    /\ IF Leeward_IsNull(result)
       THEN /\ pc' = "thrown"
            /\ error' = "Error when creating uncertainty, exiting..."
            /\ UNCHANGED <<view, faults>>
       ELSE /\ faults' = faults \cup DerefFault(result)
            /\ IF result.st = "live"
               THEN view' = Leeward_SetFields(view, id, result.val)
               ELSE \E g \in Garbage :
                       view' = Leeward_SetFields(view, id,
                                                 GarbageUncertainty(g))
            /\ pc' = "free_result"
            /\ error' = error
    /\ UNCHANGED <<kind, m_sbet, m_config, m_offset, id, leeward, engines,
                   lidar, normal, result, queries, frees, resAllocs, resFrees,
                   skipped, wpc, wid, wres>>

\* line 69, then ++id
Leeward_FreeResult ==
    /\ kind = "leeward" /\ pc = "free_result"
    /\ faults' = faults \cup ResultFreeFault(result)
    /\ resFrees' = resFrees + (IF result.st = "live" THEN 1 ELSE 0)
    /\ result' = NoResult
    /\ id' = id + 1
    /\ pc' = "loop"
    /\ UNCHANGED <<kind, m_sbet, m_config, m_offset, view, leeward, engines,
                   lidar, normal, queries, frees, resAllocs, error, skipped,
                   wpc, wid, wres>>

\* line 71
Leeward_FreeEngine ==
    /\ kind = "leeward" /\ pc = "free_engine"
    /\ faults' = faults \cup EngineFreeFault(leeward)
    /\ engines' = FreeEngine(leeward)
    /\ frees' = Append(frees, leeward)
    /\ pc' = "done"
    /\ UNCHANGED <<kind, m_sbet, m_config, m_offset, view, id, leeward, lidar,
                   normal, result, queries, resAllocs, resFrees, error,
                   skipped, wpc, wid, wres>>

----------------------------------------------------------------------------
(* pdal-plugin LeewardFilter::run *)

\* lines 19-23: leeward_new("foobar", 42); whether it yields an engine is
\* up to the environment
Plugin_New ==
    /\ kind = "plugin" /\ pc = "new"
    /\ \E made \in BOOLEAN :
          IF made
          THEN /\ leeward' = Len(engines) + 1
               /\ engines' = Append(engines,
                                [st |-> "live", traj |-> <<>>, calib |-> 42])
               /\ pc' = "free_engine"
               /\ error' = error
          ELSE /\ leeward' = 0
               /\ engines' = engines
               /\ pc' = "thrown"
               /\ error' = "Error when creating leeward, exiting..."
    /\ UNCHANGED <<kind, m_sbet, m_config, m_offset, view, id, lidar, normal,
                   result, queries, frees, resAllocs, resFrees, faults,
                   skipped, wpc, wid, wres>>

\* lines 24-25: leeward_delete, return output
Plugin_Delete ==
    /\ kind = "plugin" /\ pc = "free_engine"
    /\ faults' = faults \cup EngineFreeFault(leeward)
    /\ engines' = FreeEngine(leeward)
    /\ frees' = Append(frees, leeward)
    /\ pc' = "done"
    /\ UNCHANGED <<kind, m_sbet, m_config, m_offset, view, id, leeward, lidar,
                   normal, result, queries, resAllocs, resFrees, error,
                   skipped, wpc, wid, wres>>

----------------------------------------------------------------------------
NoLidar == [x |-> 0, y |-> 0, z |-> 0, scan_angle |-> 0, time |-> 0]
NoNormal == <<0, 0, 0>>

Idle == [w \in 1..NumWorkers |-> "idle"]

InitCommon ==
    /\ view \in Views
    /\ m_sbet \in SbetPaths
    /\ m_config \in ConfigPaths
    /\ id = 0
    /\ leeward = 0
    /\ engines = <<>>
    /\ lidar = NoLidar
    /\ normal = NoNormal
    /\ result = NoResult
    /\ queries = <<>>
    /\ frees = <<>>
    /\ resAllocs = 0
    /\ resFrees = 0
    /\ faults = {}
    /\ error = ""
    /\ skipped = {}

Init ==
    /\ InitCommon
    /\ kind \in {"body", "leeward", "plugin"}
    /\ pc = IF kind = "plugin" THEN "new" ELSE "check_sbet"
    /\ kind = "plugin" => m_sbet = "" /\ m_config = ""
    /\ IF kind = "body"
       THEN \E arg \in OffsetArgs : m_offset = Body_AddArgs(arg)
       ELSE m_offset = DefaultOffset
    /\ wpc = Idle
    /\ wid = [w \in 1..NumWorkers |-> 0]
    /\ wres = [w \in 1..NumWorkers |-> NoResult]

Next ==
    \/ Body_CheckSbet
    \/ Body_CheckConfig
    \/ Body_New
    \/ Body_LoopTest
    \/ Body_Query
    \/ Body_Result
    \/ Body_FreeResult
    \/ Body_FreeEngine
    \/ Leeward_CheckSbet
    \/ Leeward_CheckConfig
    \/ Leeward_New
    \/ Leeward_LoopTest
    \/ Leeward_Query
    \/ Leeward_Result
    \/ Leeward_FreeResult
    \/ Leeward_FreeEngine
    \/ Plugin_New
    \/ Plugin_Delete

Spec == Init /\ [][Next]_vars

----------------------------------------------------------------------------
(* Several callers sharing one engine instance, one point per query *)

Workers == 1..NumWorkers

Claimed ==
    {wid[w] : w \in {u \in Workers : wpc[u] # "idle"}}
        \cup {queries[k].id : k \in 1..Len(queries)}

\* a worker takes a point nobody has taken
W_Take(w) ==
    /\ kind = "parallel" /\ wpc[w] = "idle"
    /\ leeward # 0
    /\ \E i \in 0..(Len(view) - 1) :
          /\ i \notin Claimed
          /\ wid' = [wid EXCEPT ![w] = i]
    /\ wpc' = [wpc EXCEPT ![w] = "taken"]
    /\ UNCHANGED <<kind, m_sbet, m_config, m_offset, view, pc, id, leeward,
                   engines, lidar, normal, result, queries, frees, resAllocs,
                   resFrees, faults, error, skipped, wres>>

\* the worker's query against the shared engine
W_Query(w) ==
    /\ kind = "parallel" /\ wpc[w] = "taken"
    /\ faults' = faults \cup EngineUseFault(leeward)
    /\ wres' = [wres EXCEPT ![w] =
                   AsHandle(QueryUncertainty(engines[leeward],
                                             Leeward_Lidar(view, wid[w]),
                                             Leeward_Normal(view, wid[w])))]
    /\ resAllocs' = resAllocs + (IF wres'[w].st = "live" THEN 1 ELSE 0)
    /\ queries' = Append(queries,
                         [id |-> wid[w], engine |-> leeward,
                          time |-> Leeward_Lidar(view, wid[w]).time,
                          ok |-> wres'[w].st = "live"])
    /\ wpc' = [wpc EXCEPT ![w] = "queried"]
    /\ UNCHANGED <<kind, m_sbet, m_config, m_offset, view, pc, id, leeward,
                   engines, lidar, normal, result, frees, resFrees, error,
                   skipped, wid>>

\* variant: one result slot shared by all workers
W_Result_Shared(w) == wres[1]

\* the result the worker writes back: its own
W_Result(w) == wres[w]

\* the worker writes its result to its point, or skips the point
W_Write(w) ==
    /\ kind = "parallel" /\ wpc[w] = "queried"
    /\ IF W_Result(w).st = "live"
       THEN /\ view' = Leeward_SetFields(view, wid[w], W_Result(w).val)
            /\ resFrees' = resFrees + 1
            /\ skipped' = skipped
       ELSE /\ skipped' = skipped \cup {wid[w]}
            /\ UNCHANGED <<view, resFrees>>
    /\ wres' = [wres EXCEPT ![w] = NoResult]
    /\ wpc' = [wpc EXCEPT ![w] = "idle"]
    /\ UNCHANGED <<kind, m_sbet, m_config, m_offset, pc, id, leeward, engines,
                   lidar, normal, result, queries, frees, resAllocs, faults,
                   error, wid>>

\* the engine is released once every point is done
W_Release ==
    /\ kind = "parallel" /\ pc = "parallel"
    /\ \A w \in Workers : wpc[w] = "idle"
    /\ Len(queries) = Len(view)
    /\ faults' = faults \cup EngineFreeFault(leeward)
    /\ engines' = FreeEngine(leeward)
    /\ frees' = Append(frees, leeward)
    /\ pc' = "done"
    /\ UNCHANGED <<kind, m_sbet, m_config, m_offset, view, id, leeward, lidar,
                   normal, result, queries, resAllocs, resFrees, error,
                   skipped, wpc, wid, wres>>

InitPar ==
    /\ InitCommon
    /\ kind = "parallel"
    /\ pc = "parallel"
    /\ m_offset = DefaultOffset
    /\ wpc = Idle
    /\ wid = [w \in Workers |-> 0]
    /\ wres = [w \in Workers |-> NoResult]

\* the run constructs the engine once, before any worker starts
Par_New ==
    /\ kind = "parallel" /\ pc = "parallel" /\ engines = <<>>
    /\ CanCreate(m_sbet, m_config)
    /\ leeward' = NewHandle(m_sbet, m_config)
    /\ engines' = Append(engines, NewEngine(m_sbet, m_config))
    /\ UNCHANGED <<kind, m_sbet, m_config, m_offset, view, pc, id, lidar,
                   normal, result, queries, frees, resAllocs, resFrees,
                   faults, error, skipped, wpc, wid, wres>>

NextPar ==
    \/ Par_New
    \/ \E w \in Workers : W_Take(w)
    \/ \E w \in Workers : W_Query(w)
    \/ \E w \in Workers : W_Write(w)
    \/ W_Release

SpecPar == InitPar /\ [][NextPar]_vars

----------------------------------------------------------------------------
(* Properties *)

Sequential == kind \in {"body", "leeward"}

PointIds == 0..(Len(view) - 1)

Out(i) == view[i + 1].out

Written(i) == DOMAIN Out(i)

PastSetup == pc \notin {"check_sbet", "check_config", "new"}

Ended == pc \in {"thrown", "done"}

\* the query of point i, once it has been issued
QueryOf(i) == queries[CHOOSE k \in 1..Len(queries) : queries[k].id = i]

Queried(i) == \E k \in 1..Len(queries) : queries[k].id = i

\* C1: with an empty sbet path, an empty config path or a null engine the
\* run throws before any point is queried, no output field of any point is
\* written, and with an empty path leeward_new is never reached
C1_SetupFailureAborts ==
    Sequential =>
      /\ (m_sbet = "" \/ m_config = "" \/ (pc # "check_sbet"
              /\ pc # "check_config" /\ pc # "new" /\ leeward = 0)) =>
            /\ queries = <<>>
            /\ \A i \in PointIds : Out(i) = NoFields
            /\ pc \in {"check_sbet", "check_config", "new", "thrown"}
            /\ pc = "thrown" => error # ""
      /\ m_sbet = "" => pc \in {"check_sbet", "thrown"} /\ engines = <<>>
      /\ m_config = "" =>
            pc \in {"check_sbet", "check_config", "thrown"} /\ engines = <<>>

C1_Witness ==
    /\ kind = "body" /\ pc = "thrown" /\ Len(view) = MaxPoints
    /\ m_sbet = "unsorted.sbet" /\ m_config = "sensor.toml"
    /\ error = "Error when creating leeward, exiting..."

\* C2: in BodyFrameFilter a point whose query failed has none of the six
\* fields written, a point whose query succeeded has all six, every point of
\* the view is queried in turn whatever happened to the earlier ones, and
\* the run never aborts once the engine exists
C2_BodySkipsAndContinues ==
    kind = "body" =>
      /\ \A i \in PointIds :
            /\ Written(i) \in {{}, BodyDims}
            /\ i < id /\ PastSetup =>
                  /\ Queried(i)
                  /\ Written(i) = (IF QueryOf(i).ok THEN BodyDims ELSE {})
                  /\ ~QueryOf(i).ok => i \in skipped
            /\ i > id => Written(i) = {} /\ ~Queried(i)
      /\ \A k \in 1..Len(queries) : queries[k].id = k - 1
      /\ leeward # 0 => pc # "thrown"
      /\ pc = "done" => Len(queries) = Len(view)

C2_Witness ==
    /\ kind = "body" /\ pc = "done" /\ Len(view) = 2
    /\ ~queries[1].ok /\ queries[2].ok
    /\ Written(0) = {} /\ Written(1) = BodyDims

\* C3: in LeewardFilter a failed per-point query never aborts the run: the
\* failing point stays unwritten and every remaining point is processed
C3_LeewardSkipsAndContinues ==
    kind = "leeward" =>
      /\ leeward # 0 => pc # "thrown"
      /\ (Ended /\ leeward # 0) => Len(queries) = Len(view)
      /\ \A i \in PointIds :
            (Queried(i) /\ ~QueryOf(i).ok) => Written(i) = {}

\* C4: when a run has ended, every engine obtained from leeward_new has been
\* released exactly once
C4_EngineAlwaysReleased ==
    Ended =>
      /\ \A h \in 1..Len(engines) : engines[h].st = "freed"
      /\ Len(frees) = Len(engines)
      /\ "double_free_of_engine" \notin faults

\* C5: the timestamp BodyFrameFilter looks up is GpsTime + offset, and when
\* that is before the first or after the last trajectory record the query
\* fails and nothing is written to the point
C5_ShiftedTimeOutOfRange ==
    kind = "body" =>
      \A k \in 1..Len(queries) :
         LET q     == queries[k]
             traj  == engines[q.engine].traj
             exact == view[q.id + 1].GpsTime + m_offset
         IN  q.id < id =>
             /\ q.time = exact
             /\ (exact < traj[1].time \/ exact > traj[Len(traj)].time) =>
                   ~q.ok /\ Written(q.id) = {}

\* C6: a run constructs at most one engine, has constructed it before its
\* first query, issues every query against that live instance, and releases
\* it only when no query remains
C6_OneEnginePerRun ==
    /\ Len(engines) <= 1
    /\ \A k \in 1..Len(queries) : queries[k].engine = 1 /\ leeward = 1
    /\ queries # <<>> => Len(engines) = 1
    /\ "query_on_null_engine" \notin faults
    /\ "query_on_freed_engine" \notin faults
    /\ pc \in {"loop", "query", "result", "free_result", "free_engine"} =>
          Len(engines) = 1 /\ engines[1].st = "live" /\ leeward = 1
    /\ frees # <<>> =>
          /\ pc = "done" /\ frees = <<1>>
          /\ Sequential => Len(queries) = Len(view)
    /\ pc = "done" => Len(engines) = 1

C6_Witness ==
    /\ kind = "leeward" /\ pc = "done" /\ Len(queries) = 2 /\ frees = <<1>>

\* what the engine is given for a point, from the point's own fields
LidarOfPoint(p, off) ==
    [x |-> p.X, y |-> p.Y, z |-> p.Z,
     time |-> ToFloat(ToFloat(p.GpsTime) + off)]

NormalOfPoint(p) == <<p.NormalX, p.NormalY, p.NormalZ>>

\* the fields a point ends with, as a function of its own inputs, the
\* offset and the engine's data
BodyOutOf(p, off, e) ==
    LET q == QueryBodyFrame(e, LidarOfPoint(p, off))
    IN  IF ~q.ok THEN NoFields
        ELSE [d \in BodyDims |->
                CASE d = "BodyFrameX" -> q.val.x
                  [] d = "BodyFrameY" -> q.val.y
                  [] d = "BodyFrameZ" -> q.val.z
                  [] d = "Roll" -> q.val.roll
                  [] d = "Pitch" -> q.val.pitch
                  [] d = "Yaw" -> q.val.yaw]

UncertaintyOutOf(p, e) ==
    LET q == QueryUncertainty(e, LidarOfPoint(p, 0), NormalOfPoint(p))
    IN  IF ~q.ok THEN NoFields
        ELSE [d \in LeewardDims |->
                CASE d = "XUncertainty" -> q.val.x
                  [] d = "YUncertainty" -> q.val.y
                  [] d = "HorizontalUncertainty" -> q.val.horizontal
                  [] d = "VerticalUncertainty" -> q.val.vertical
                  [] d = "Uncertainty" -> q.val.total
                  [] d = "IncidenceAngle" ->
                        (q.val.incidence_angle * 180) \div PiUnits]

Inputs(p) == [p EXCEPT !.out = NoFields]

\* C7: the fields written for a point are a function of that point's own
\* inputs, the offset and the engine's data alone, so two points of a view
\* with the same inputs end with the same fields whatever was queried
\* before them
C7_ResultDependsOnOwnInputs ==
    Sequential =>
      /\ \A i \in PointIds :
            (i < id /\ PastSetup) =>
               Out(i) = IF kind = "body"
                        THEN BodyOutOf(view[i + 1], m_offset, engines[1])
                        ELSE UncertaintyOutOf(view[i + 1], engines[1])
      /\ \A i, j \in PointIds :
            (i < id /\ j < id /\ PastSetup
                /\ Inputs(view[i + 1]) = Inputs(view[j + 1])) =>
               Out(i) = Out(j)

C7_Witness ==
    /\ kind = "body" /\ pc = "done" /\ Len(view) = 2
    /\ Inputs(view[1]) = Inputs(view[2])
    /\ Written(0) = BodyDims /\ Out(0) = Out(1)
    /\ lidar.scan_angle # 0

C9_OutputRanges ==
    kind = "leeward" =>
      \A i \in PointIds :
         Written(i) # {} =>
            /\ Written(i) = LeewardDims
            /\ Out(i)["XUncertainty"] >= 0
            /\ Out(i)["YUncertainty"] >= 0
            /\ Out(i)["HorizontalUncertainty"] >= 0
            /\ Out(i)["VerticalUncertainty"] >= 0
            /\ Out(i)["Uncertainty"] >= Out(i)["HorizontalUncertainty"]
            /\ Out(i)["Uncertainty"] >= Out(i)["VerticalUncertainty"]
            /\ Out(i)["IncidenceAngle"] >= 0
            /\ Out(i)["IncidenceAngle"] <= 180

C9_Witness ==
    /\ kind = "leeward" /\ pc = "done" /\ Len(view) = 1
    /\ Out(0)["IncidenceAngle"] = 75
    /\ Out(0)["XUncertainty"] > 0
    /\ Out(0)["Uncertainty"] >= Out(0)["HorizontalUncertainty"]
    /\ Out(0)["HorizontalUncertainty"] > Out(0)["VerticalUncertainty"]

\* C10: no null result is dereferenced or freed, no result is read or freed
\* after its free, every result is freed in the iteration that got it, and
\* none is outstanding when the engine is released
C10_ResultLifecycle ==
    Sequential =>
      /\ faults \cap {"null_result_deref", "free_of_null_result",
                      "result_use_after_free", "double_free_of_result"} = {}
      /\ resAllocs - resFrees = (IF result.st = "live" THEN 1 ELSE 0)
      /\ result.st \in {"none", "null", "live"}
      /\ result.st = "live" => pc \in {"result", "free_result"}
      /\ result.st = "null" => kind = "leeward" \/ pc = "result"
      /\ pc = "free_result" => result.st = "live"
      /\ frees # <<>> => resAllocs = resFrees
      /\ Ended => resAllocs = resFrees

C10_Witness ==
    /\ kind = "body" /\ pc = "done" /\ Len(queries) = 2
    /\ resAllocs = 1 /\ resFrees = 1 /\ skipped = {0}

====
